---- MODULE Spec2Model ----
(***************************************************************************)
(* Model of import_users.py: migration of Cognito user records into        *)
(* Firebase Authentication (identity platform) and Firestore (document     *)
(* store), the two bulk deleters, and the interactive driver main().       *)
(*                                                                         *)
(* Attribute values, emails, phone numbers and console inputs are Python   *)
(* strings; they are modelled as tuples of one-character strings so that   *)
(* str.lower(), str.strip() and f-string formatting are computed character *)
(* by character.  Usernames/uids and status fields are never transformed   *)
(* by the program and stay TLA+ strings.                                   *)
(***************************************************************************)
EXTENDS Integers, Sequences, FiniteSets, TLC

\* ------------------------------------------------------------------ bounds
\* Longest source file (number of records in cognito_users.json "Users").
MaxFile == 2
\* Number of operator commands read at the MENU prompt in one run.
MaxRounds == 2
\* Largest page size the identity platform may use for list_users().
MaxPage == 2

\* ----------------------------------------------------------------- strings
\* Python None.  It is a one-element tuple whose element is not a character,
\* so it differs from every string, the empty string <<>> included.
None == <<"<None>">>

\* str.lower() on one character (the alphabet the inputs are drawn from).
LowerChar(c) ==
    CASE c = "T" -> "t"
      [] c = "R" -> "r"
      [] c = "U" -> "u"
      [] c = "E" -> "e"
      [] c = "Y" -> "y"
      [] c = "S" -> "s"
      [] c = "N" -> "n"
      [] c = "O" -> "o"
      [] OTHER -> c

\* str.lower()
Lower(s) == [i \in DOMAIN s |-> LowerChar(s[i])]

\* str(None) inside an f-string is the text "None".
Fmt(v) == IF v = None THEN <<"N", "o", "n", "e">> ELSE v

RECURSIVE LStrip(_)
LStrip(s) == IF s # <<>> /\ Head(s) = " " THEN LStrip(Tail(s)) ELSE s

RECURSIVE RStrip(_)
RStrip(s) ==
    IF s # <<>> /\ s[Len(s)] = " " THEN RStrip(SubSeq(s, 1, Len(s) - 1)) ELSE s

\* str.strip()
Strip(s) == RStrip(LStrip(s))

\* Python truthiness of an Optional[str]: None and "" are falsy.
Truthy(v) == v # None /\ v # <<>>

\* ------------------------------------------------------- Record Extractor
RECURSIVE get_attribute_value(_, _)
\* next((attr["Value"] for attr in attributes if attr["Name"] == name), None)
get_attribute_value(attributes, name) ==
    IF attributes = <<>> THEN None
    ELSE IF Head(attributes).Name = name THEN Head(attributes).Value
    ELSE get_attribute_value(Tail(attributes), name)

\* -------------------------------------------------------- Document Mapper
\* Faulty variant of create_firestore_user_data: the two verification flags
\* are compared after lower-casing, as the create request does.
create_firestore_user_data_AnyCase(user_data, user_record) ==
    LET attributes == user_data.Attributes IN
    [ Username |-> user_data.Username,
      Attributes |->
        [ email |-> get_attribute_value(attributes, "email"),
          email_verified |->
              Lower(get_attribute_value(attributes, "email_verified"))
                 = <<"t", "r", "u", "e">>,
          phone_number |-> get_attribute_value(attributes, "phone_number"),
          phone_number_verified |->
              Lower(get_attribute_value(attributes, "phone_number_verified"))
                 = <<"t", "r", "u", "e">>,
          family_name |-> get_attribute_value(attributes, "family_name"),
          given_name |-> get_attribute_value(attributes, "given_name"),
          sub |-> get_attribute_value(attributes, "sub") ],
      UserCreateDate |-> user_data.UserCreateDate,
      UserLastModifiedDate |-> user_data.UserLastModifiedDate,
      Enabled |-> user_data.Enabled,
      UserStatus |-> user_data.UserStatus,
      firebase_uid |-> user_record.uid ]

\* create_firestore_user_data(user_data, user_record), lines 19-41.
create_firestore_user_data(user_data, user_record) ==
    LET attributes == user_data.Attributes IN
    [ Username |-> user_data.Username,
      Attributes |->
        [ email |-> get_attribute_value(attributes, "email"),
          email_verified |->
              get_attribute_value(attributes, "email_verified") = <<"t", "r", "u", "e">>,
          phone_number |-> get_attribute_value(attributes, "phone_number"),
          phone_number_verified |->
              get_attribute_value(attributes, "phone_number_verified") = <<"t", "r", "u", "e">>,
          family_name |-> get_attribute_value(attributes, "family_name"),
          given_name |-> get_attribute_value(attributes, "given_name"),
          sub |-> get_attribute_value(attributes, "sub") ],
      UserCreateDate |-> user_data.UserCreateDate,
      UserLastModifiedDate |-> user_data.UserLastModifiedDate,
      Enabled |-> user_data.Enabled,
      UserStatus |-> user_data.UserStatus,
      firebase_uid |-> user_record.uid ]

\* ----------------------------------------- Migration Worker: the request
\* "email_verified": email_verified.lower() == "true" if email_verified else False
RequestEmailVerified(email_verified) ==
    IF Truthy(email_verified) THEN Lower(email_verified) = <<"t", "r", "u", "e">>
    ELSE FALSE

\* "display_name": f"{given_name} {family_name}".strip()
\*                 if given_name or family_name else None
RequestDisplayName(given_name, family_name) ==
    IF Truthy(given_name) \/ Truthy(family_name)
    THEN Strip(Fmt(given_name) \o <<" ">> \o Fmt(family_name))
    ELSE None

\* The keys left in user_kwargs after lines 60-74: display_name is the only
\* entry of the literal that can be None; phone_number is added when truthy.
RequestKeys(display_name, phone_number) ==
    {"uid", "email", "password", "email_verified", "disabled"}
        \cup (IF display_name # None THEN {"display_name"} ELSE {})
        \cup (IF Truthy(phone_number) THEN {"phone_number"} ELSE {})

\* Faulty variant of RequestUid: the uid is left to the platform to generate.
RequestUid_Generated(user_data) == "generated"

\* "uid": user_data["Username"]  (line 61)
RequestUid(user_data) == user_data.Username

\* user_kwargs as passed to the first auth.create_user call.
BuildUserKwargs(user_data) ==
    LET attributes == user_data.Attributes
        email == get_attribute_value(attributes, "email")
        email_verified == get_attribute_value(attributes, "email_verified")
        phone_number == get_attribute_value(attributes, "phone_number")
        given_name == get_attribute_value(attributes, "given_name")
        family_name == get_attribute_value(attributes, "family_name")
        display_name == RequestDisplayName(given_name, family_name)
        full == [ uid |-> RequestUid(user_data),
                  email |-> email,
                  password |-> <<"D", "e", "f", "a", "u", "l", "t", "@", "1", "2", "3">>,
                  email_verified |-> RequestEmailVerified(email_verified),
                  display_name |-> display_name,
                  disabled |-> ~user_data.Enabled,
                  phone_number |-> phone_number ]
    IN [k \in RequestKeys(display_name, phone_number) |-> full[k]]

\* user_kwargs.pop('phone_number', None)
PopPhone(kwargs) == [k \in DOMAIN kwargs \ {"phone_number"} |-> kwargs[k]]

\* ------------------------------------------------------------ source data
Attr(name, value) == [Name |-> name, Value |-> value]

UserData(username, attributes, enabled) ==
    [ Username |-> username,
      Attributes |-> attributes,
      UserCreateDate |-> "2023-01-01",
      UserLastModifiedDate |-> "2023-02-02",
      Enabled |-> enabled,
      UserStatus |-> "CONFIRMED" ]

\* Source records a cognito_users.json file may hold.  Emails are a, b, c;
\* phone p is well formed, phone q is rejected by the platform as invalid.
RecFull ==
    UserData("u1",
             << Attr("email", <<"a">>), Attr("email_verified", <<"t", "r", "u", "e">>),
                Attr("phone_number", <<"p">>),
                Attr("phone_number_verified", <<"t", "r", "u", "e">>),
                Attr("given_name", <<"J">>), Attr("family_name", <<"D">>) >>, TRUE)
RecNoEmail == UserData("u2", << Attr("given_name", <<"K">>) >>, TRUE)
RecEmptyEmail ==
    UserData("u3", << Attr("email", <<>>), Attr("phone_number", <<"p">>) >>, TRUE)
\* Same email as RecFull under another Username; a repeated attribute name.
RecSameEmail ==
    UserData("u4",
             << Attr("email", <<"a">>), Attr("email", <<"c">>),
                Attr("email_verified", <<"T", "R", "U", "E">>),
                Attr("given_name", <<"J">>) >>, FALSE)
RecBadPhone ==
    UserData("u5",
             << Attr("email", <<"c">>), Attr("email_verified", <<"1">>),
                Attr("phone_number", <<"q">>),
                Attr("phone_number_verified", <<"T", "R", "U", "E">>),
                Attr("family_name", <<"D">>) >>, TRUE)

Records == {RecFull, RecNoEmail, RecEmptyEmail, RecSameEmail, RecBadPhone}

\* json.load(f)["Users"]: every sequence of at most MaxFile records, each user
\* of the pool exported once.
RECURSIVE SeqsUpTo(_, _)
SeqsUpTo(S, n) ==
    IF n = 0 THEN {<<>>}
    ELSE LET shorter == SeqsUpTo(S, n - 1)
         IN shorter \cup UNION {{Append(q, r) : r \in S \ {q[k] : k \in DOMAIN q}} :
                                 q \in shorter}

Files == SeqsUpTo(Records, MaxFile)

\* ------------------------------------------------------ identity platform
\* An identity held by Firebase Authentication.
Identity(uid, email, phone_number, email_verified) ==
    [uid |-> uid, email |-> email, phone_number |-> phone_number,
     email_verified |-> email_verified]

\* auth.UserRecord returned by a successful create_user(**kwargs).
CreatedIdentity(kwargs) ==
    Identity(kwargs.uid, kwargs.email,
             IF "phone_number" \in DOMAIN kwargs THEN kwargs.phone_number ELSE None,
             kwargs.email_verified)

\* Phone numbers the platform rejects as malformed.
InvalidPhones == {<<"q">>}

\* The errors auth.create_user(**kwargs) may raise against the identities ids.
\* UNAVAILABLE stands for every transient failure and is always possible.
CreateErrors(kwargs, ids) ==
    (IF "phone_number" \in DOMAIN kwargs /\ kwargs.phone_number \in InvalidPhones
        THEN {"INVALID_PHONE_NUMBER"} ELSE {})
    \cup (IF "phone_number" \in DOMAIN kwargs
             /\ \E i \in ids : i.phone_number = kwargs.phone_number
        THEN {"PHONE_NUMBER_EXISTS"} ELSE {})
    \cup (IF \E i \in ids : i.uid = kwargs.uid THEN {"UID_ALREADY_EXISTS"} ELSE {})
    \cup (IF \E i \in ids : i.email = kwargs.email THEN {"EMAIL_EXISTS"} ELSE {})
    \cup {"UNAVAILABLE"}

\* create_user can succeed only when no deterministic rejection applies.
CreateCanSucceed(kwargs, ids) == CreateErrors(kwargs, ids) = {"UNAVAILABLE"}

\* Faulty variant of IsPhoneError: every failed creation is retried without phone.
IsPhoneError_Any(e) == TRUE

\* if "INVALID_PHONE_NUMBER" in str(e) or "PHONE_NUMBER_EXISTS" in str(e)
IsPhoneError(e) == e \in {"INVALID_PHONE_NUMBER", "PHONE_NUMBER_EXISTS"}

\* ---------------------------------------------------------- document store
\* user_doc_ref.set(data, merge=True): supplied fields overwrite, the other
\* stored fields stay.  With merge=False the document is replaced.
SetDocument(store, id, data, merge) ==
    LET old == IF id \in DOMAIN store THEN store[id] ELSE [k \in {} |-> TRUE]
        new == IF merge
               THEN [k \in DOMAIN old \cup DOMAIN data |->
                        IF k \in DOMAIN data THEN data[k] ELSE old[k]]
               ELSE data
    IN [d \in DOMAIN store \cup {id} |-> IF d = id THEN new ELSE store[d]]

RemoveDocument(store, id) == [d \in DOMAIN store \ {id} |-> store[d]]

\* States the two platforms may be in before the program starts: empty; an
\* identity for email a under another uid, with a document holding a field the
\* mapper does not write; an identity that owns phone p.
OldIdentityA == Identity("x9", <<"a">>, None, FALSE)
OldIdentityZ == Identity("x8", <<"z">>, <<"p">>, TRUE)
LegacyDoc == [firebase_uid |-> "x9", legacy |-> TRUE]
NoDocs == [d \in {} |-> LegacyDoc]
InitPlatforms ==
    { [identities |-> {}, docs |-> NoDocs],
      [identities |-> {OldIdentityA}, docs |-> [d \in {"x9"} |-> LegacyDoc]],
      [identities |-> {OldIdentityZ}, docs |-> NoDocs] }

\* ------------------------------------------------------------------- state
VARIABLES
    file,         \* cognito_data["Users"], the source file
    identities,   \* identities held by the identity platform
    docs,         \* the users collection: document id -> document
    pc,           \* position of the driver
    rounds,       \* commands read at the MENU prompt so far
    idx,          \* 1-based position of the MIGRATE loop in file
    stats,        \* stats dict of main()
    user_kwargs,  \* user_kwargs of migrate_user
    user_record,  \* user_record of migrate_user
    result,       \* value migrate_user returns
    calls,        \* external calls of the running migrate_user / DELETE action
    processed,    \* records handed to migrate_user in this batch, with results
    console,      \* lines printed by the current command
    log,          \* count pairs and summaries logged by the current command
    last_batch,   \* the platforms as the previous command left them, if it was a batch
    action,       \* token read at the MENU prompt
    delete_type,  \* deletion scope typed by the operator
    confirm,      \* answer typed at the "Are you sure?" prompt
    fs,           \* locals of delete_firestore_users
    au            \* locals of delete_auth_users

vars == << file, identities, docs, pc, rounds, idx, stats, user_kwargs, user_record,
           result, calls, processed, console, log, last_batch, action, delete_type, confirm, fs, au >>

platformVars == << identities, docs >>
migrateVars == << idx, stats, user_kwargs, user_record, result, processed >>
deleteVars == << delete_type, confirm, fs, au >>

\* Python None returned by migrate_user / an unassigned user_record.
NoUser == [none |-> TRUE]
NoKwargs == [none |-> TRUE]
NoBatch == [none |-> TRUE]
FsIdle == [stream |-> <<>>, i |-> 1, deleted |-> 0, failed |-> 0, caller |-> "none"]
AuIdle == [pages |-> <<>>, p |-> 1, i |-> 1, deleted |-> 0, failed |-> 0]

Init ==
    /\ file \in Files
    /\ \E p \in InitPlatforms : identities = p.identities /\ docs = p.docs
    /\ pc = "MENU"
    /\ rounds = 0
    /\ idx = 1
    /\ stats = [total |-> 0, success |-> 0, failed |-> 0]
    /\ user_kwargs = NoKwargs
    /\ user_record = NoUser
    /\ result = NoUser
    /\ calls = <<>>
    /\ processed = <<>>
    /\ console = <<>>
    /\ log = <<>>
    /\ action = "none"
    /\ last_batch = NoBatch
    /\ delete_type = "none"
    /\ confirm = <<>>
    /\ fs = FsIdle
    /\ au = AuIdle

\* The locals of the previous command are dead when the next command is read
\* at the MENU prompt (the code assigns them before it reads them again); the
\* model returns them to their idle values there.  calls, console and log
\* hold what the current command has done.
ResetMigrate ==
    /\ idx' = 1
    /\ stats' = [total |-> 0, success |-> 0, failed |-> 0]
    /\ user_kwargs' = NoKwargs
    /\ user_record' = NoUser
    /\ result' = NoUser
    /\ processed' = <<>>

ResetDelete ==
    /\ delete_type' = "none"
    /\ confirm' = <<>>
    /\ fs' = FsIdle
    /\ au' = AuIdle

\* One external call, as recorded in calls.
Call(op, arg, out) == [op |-> op, arg |-> arg, out |-> out]

\* ------------------------------------------------------------------ driver
Actions == {"1", "2", "3", "7", ""}

\* Faulty variant of Dispatch: a token that is not 1 or 2 ends the loop.
Dispatch_UnknownExits(token) ==
    IF token = "1" THEN "migrate"
    ELSE IF token = "2" THEN "delete"
    ELSE "exit"

\* if action == "1": ... elif action == "2": ... elif action == "3": ... else:
\* (lines 200, 236, 255, 259)
Dispatch(token) ==
    IF token = "1" THEN "migrate"
    ELSE IF token = "2" THEN "delete"
    ELSE IF token = "3" THEN "exit"
    ELSE "invalid"
DeleteTypes == {"1", "2", "3", "4"}
\* Answers to "Are you sure?": yes, YeS, no, NO, y, the empty line, "yes ".
ConfirmInputs ==
    { <<"y", "e", "s">>, <<"Y", "e", "S">>, <<"n", "o">>, <<"N", "O">>,
      <<"y">>, <<>>, <<"y", "e", "s", " ">> }

\* main(), action == "1", lines 201-220: client initialisation and loading
\* the source file either succeed or raise, which ends the process.
MenuMigrate ==
    /\ pc = "MENU"
    /\ rounds < MaxRounds
    /\ \E token \in Actions : Dispatch(token) = "migrate" /\ action' = token
    /\ rounds' = rounds + 1
    /\ console' = <<>>
    /\ log' = <<>>
    /\ calls' = <<>>
    /\ \E loaded \in BOOLEAN :
          IF loaded
          THEN /\ stats' = [total |-> Len(file), success |-> 0, failed |-> 0]
               /\ pc' = "LOOP"
          ELSE /\ stats' = [total |-> 0, success |-> 0, failed |-> 0]
               /\ pc' = "CRASHED"
    /\ idx' = 1
    /\ processed' = <<>>
    /\ user_kwargs' = NoKwargs
    /\ user_record' = NoUser
    /\ result' = NoUser
    /\ ResetDelete
    /\ UNCHANGED << file, platformVars, last_batch >>

\* Faulty variant of HasEmail: only an absent attribute counts as "no email".
HasEmail_AbsentOnly(email) == email # None

\* if not email (line 54)
HasEmail(email) == Truthy(email)

\* for user in cognito_data["Users"]: migrate_user(user, db), lines 45-74.
MigrateUserBegin ==
    /\ pc = "LOOP"
    /\ idx <= Len(file)
    /\ LET user_data == file[idx]
           email == get_attribute_value(user_data.Attributes, "email")
       IN /\ calls' = <<>>
          /\ user_record' = NoUser
          /\ IF HasEmail(email)
             THEN /\ user_kwargs' = BuildUserKwargs(user_data)
                  /\ pc' = "LOOKUP"
                  /\ UNCHANGED << result, log >>
             ELSE /\ user_kwargs' = NoKwargs
                  /\ result' = NoUser
                  /\ log' = Append(log, <<"warning", "skip">>)
                  /\ pc' = "TALLY"
    /\ UNCHANGED << file, action, last_batch, platformVars, rounds, idx, stats, processed, console,
                    deleteVars >>

\* Faulty variant of OnMigrateException: no handler at the worker boundary, the
\* exception reaches main() and ends the run.
OnMigrateException_Escapes == "CRASHED"

\* except Exception as e: logging.error(...); return None   (lines 111-113)
OnMigrateException == "TALLY"

\* Faulty variant of AfterFound: the reset link is generated for a reused identity too.
AfterFound_ResetLink == "RESET_LINK"

\* Faulty variant of AfterFound: the lookup's answer is ignored and the identity
\* is created again.
AfterFound_Create == "CREATE"

\* Where migrate_user goes once get_user_by_email returned a record (line 79).
AfterFound == "SET"

\* user_record = auth.get_user_by_email(email), lines 76-80.
Lookup ==
    /\ pc = "LOOKUP"
    /\ LET email == user_kwargs.email
           found == {i \in identities : i.email = email}
       IN \/ \E i \in found :
                /\ user_record' = i
                /\ calls' = Append(calls, Call("get_user_by_email", email, "found"))
                /\ pc' = AfterFound
                /\ UNCHANGED result
          \/ /\ found = {}
             /\ calls' = Append(calls, Call("get_user_by_email", email, "not_found"))
             /\ pc' = "CREATE"
             /\ UNCHANGED << user_record, result >>
          \/ /\ calls' = Append(calls, Call("get_user_by_email", email, "UNAVAILABLE"))
             /\ result' = NoUser
             /\ pc' = OnMigrateException
             /\ UNCHANGED user_record
    /\ UNCHANGED << file, action, last_batch, platformVars, rounds, idx, stats, user_kwargs, processed,
                    console, log, deleteVars >>

\* Faulty variant of RetryKwargs: the retry sends the same request again.
RetryKwargs_KeepPhone(kwargs) == kwargs

\* The request of the second create_user call (lines 89-90).
RetryKwargs(kwargs) == PopPhone(kwargs)

\* user_record = auth.create_user(**user_kwargs), lines 81-94.
CreateUser ==
    /\ pc = "CREATE"
    /\ \/ /\ CreateCanSucceed(user_kwargs, identities)
          /\ user_record' = CreatedIdentity(user_kwargs)
          /\ identities' = identities \cup {CreatedIdentity(user_kwargs)}
          /\ calls' = Append(calls, Call("create_user", user_kwargs, "ok"))
          /\ pc' = "RESET_LINK"
          /\ UNCHANGED << user_kwargs, result >>
       \/ \E e \in CreateErrors(user_kwargs, identities) :
             /\ calls' = Append(calls, Call("create_user", user_kwargs, e))
             /\ IF IsPhoneError(e)
                THEN /\ user_kwargs' = RetryKwargs(user_kwargs)
                     /\ pc' = "CREATE_RETRY"
                     /\ UNCHANGED result
                ELSE /\ result' = NoUser
                     /\ pc' = OnMigrateException
                     /\ UNCHANGED user_kwargs
             /\ UNCHANGED << identities, user_record >>
    /\ UNCHANGED << file, action, last_batch, docs, rounds, idx, stats, processed, console, log,
                    deleteVars >>

\* The retry inside the except clause, line 90: a failure here is not handled
\* by the inner try and reaches the handler of lines 111-113.
CreateUserRetry ==
    /\ pc = "CREATE_RETRY"
    /\ \/ /\ CreateCanSucceed(user_kwargs, identities)
          /\ user_record' = CreatedIdentity(user_kwargs)
          /\ identities' = identities \cup {CreatedIdentity(user_kwargs)}
          /\ calls' = Append(calls, Call("create_user", user_kwargs, "ok"))
          /\ pc' = "RESET_LINK"
          /\ UNCHANGED result
       \/ \E e \in CreateErrors(user_kwargs, identities) :
             /\ calls' = Append(calls, Call("create_user", user_kwargs, e))
             /\ result' = NoUser
             /\ pc' = OnMigrateException
             /\ UNCHANGED << identities, user_record >>
    /\ UNCHANGED << file, action, last_batch, docs, rounds, idx, stats, user_kwargs, processed, console,
                    log, deleteVars >>

\* Faulty variant of AfterResetLinkFailure: the failure is swallowed and the
\* document is written all the same.
AfterResetLinkFailure_Ignored == "SET"

\* Lines 96-98 sit in the outer try with no handler of their own: a failure
\* of generate_password_reset_link reaches except Exception (lines 111-113).
AfterResetLinkFailure == OnMigrateException

\* reset_link = auth.generate_password_reset_link(email), lines 96-98.
ResetLink ==
    /\ pc = "RESET_LINK"
    /\ \/ /\ calls' = Append(calls,
                        Call("generate_password_reset_link", user_kwargs.email, "ok"))
          /\ pc' = "SET"
          /\ UNCHANGED result
       \/ /\ calls' = Append(calls,
                        Call("generate_password_reset_link", user_kwargs.email,
                             "UNAVAILABLE"))
          /\ result' = NoUser
          /\ pc' = AfterResetLinkFailure
    /\ UNCHANGED << file, action, last_batch, platformVars, rounds, idx, stats, user_kwargs, user_record,
                    processed, console, log, deleteVars >>

\* Faulty variant of DocKey: the document is keyed by the record's Username.
DocKey_Username(user_data, record) == user_data.Username

\* users_ref.document(user_record.uid), line 102.
DocKey(user_data, record) == record.uid

\* user_doc_ref.set(firestore_data, merge=True), lines 100-109.
SetDoc ==
    /\ pc = "SET"
    /\ LET user_data == file[idx]
           key == DocKey(user_data, user_record)
           firestore_data == create_firestore_user_data(user_data, user_record)
           arg == [id |-> key, data |-> firestore_data, merge |-> TRUE]
       IN \/ /\ docs' = SetDocument(docs, key, firestore_data, TRUE)
             /\ calls' = Append(calls, Call("set", arg, "ok"))
             /\ result' = user_record
             /\ pc' = "TALLY"
          \/ /\ calls' = Append(calls, Call("set", arg, "UNAVAILABLE"))
             /\ result' = NoUser
             /\ pc' = OnMigrateException
             /\ UNCHANGED docs
    /\ UNCHANGED << file, action, last_batch, identities, rounds, idx, stats, user_kwargs, user_record,
                    processed, console, log, deleteVars >>

\* Faulty variant of Tallied: a None result is left out of both counters.
Tallied_SuccessOnly(st, res) ==
    IF res # NoUser THEN [st EXCEPT !.success = @ + 1] ELSE st

\* Faulty variant of Tallied: success is incremented for every record, failed
\* for a None result on top of it.
Tallied_SuccessAlways(st, res) ==
    IF res # NoUser THEN [st EXCEPT !.success = @ + 1]
    ELSE [st EXCEPT !.success = @ + 1, !.failed = @ + 1]

\* if result: stats["success"] += 1 else: stats["failed"] += 1  (lines 225-228)
Tallied(st, res) ==
    IF res # NoUser THEN [st EXCEPT !.success = @ + 1]
    ELSE [st EXCEPT !.failed = @ + 1]

Tally ==
    /\ pc = "TALLY"
    /\ stats' = Tallied(stats, result)
    /\ processed' = Append(processed, [i |-> idx, result |-> result])
    /\ idx' = idx + 1
    /\ pc' = "LOOP"
    /\ UNCHANGED << file, action, last_batch, platformVars, rounds, user_kwargs, user_record, result,
                    calls, console, log, deleteVars >>

\* No record that has an email came back from migrate_user as None.
BatchClean ==
    \A k \in DOMAIN processed :
       processed[k].result = NoUser
          => ~HasEmail(get_attribute_value(file[processed[k].i].Attributes, "email"))

\* Lines 230-234: the loop is over, the statistics go to the log.
Summary ==
    /\ pc = "LOOP"
    /\ idx > Len(file)
    /\ log' = Append(log, <<"summary", stats>>)
    /\ last_batch' = [identities |-> identities, docs |-> docs, clean |-> BatchClean]
    /\ pc' = "MENU"
    /\ UNCHANGED << file, action, platformVars, rounds, migrateVars, calls, console,
                    deleteVars >>

\* ----------------------------------------------------------- bulk deleters
\* Every order in which a finite set can be enumerated.
RECURSIVE Orders(_)
Orders(S) ==
    IF S = {} THEN {<<>>}
    ELSE UNION {{<<x>> \o q : q \in Orders(S \ {x})} : x \in S}

\* users_ref.stream() with no order_by yields the documents in the store's
\* fixed order (ascending document id): one fixed enumeration of the ids.
StreamOrder(ids) == CHOOSE o \in Orders(ids) : TRUE

\* The listing cut into pages of at most size users; an empty listing is one
\* empty page.  page.get_next_page() is None after the last page.
RECURSIVE Pages(_, _)
Pages(listing, size) ==
    IF Len(listing) <= size THEN <<listing>>
    ELSE <<SubSeq(listing, 1, size)>> \o Pages(SubSeq(listing, size + 1, Len(listing)), size)

\* Faulty variant of Confirmed: any answer starting with y or Y proceeds.
Confirmed_StartsWithY(answer) == answer # <<>> /\ LowerChar(answer[1]) = "y"

\* if confirm.lower() == "yes"  (line 240)
Confirmed(answer) == Lower(answer) = <<"y", "e", "s">>

\* Faulty variant of DeleteFirestoreFlag: the cascade runs for both Auth scopes.
DeleteFirestoreFlag_Always(dt) == TRUE

\* delete_auth_users(delete_firestore=True) for scope 1 (line 242),
\* delete_auth_users(delete_firestore=False) for scope 2 (line 245).
DeleteFirestoreFlag(dt) == dt = "1"

\* main(), action == "2", lines 237-253, up to the call of a deleter
\* (delete_auth_users lines 154-163 included).
MenuDelete ==
    /\ pc = "MENU"
    /\ rounds < MaxRounds
    /\ \E token \in Actions : Dispatch(token) = "delete" /\ action' = token
    /\ rounds' = rounds + 1
    /\ calls' = <<>>
    /\ log' = <<>>
    /\ fs' = FsIdle
    /\ au' = AuIdle
    /\ ResetMigrate
    /\ \E dt \in DeleteTypes, answer \in ConfirmInputs :
          /\ delete_type' = dt
          /\ confirm' = answer
          /\ IF Confirmed(answer)
             THEN CASE dt \in {"1", "2"} ->
                         /\ pc' = IF DeleteFirestoreFlag(dt) THEN "FS_BEGIN"
                                  ELSE "AUTH_LIST"
                         /\ console' = <<>>
                    [] dt = "3" -> pc' = "FS_BEGIN" /\ console' = <<>>
                    [] OTHER -> pc' = "MENU" /\ console' = << <<"Invalid option">> >>
             ELSE pc' = "MENU" /\ console' = << <<"Deletion cancelled">> >>
    /\ last_batch' = NoBatch
    /\ UNCHANGED << file, platformVars >>

\* delete_firestore_users(), lines 117-134: client initialisation and
\* users_ref.stream(); a failure here is logged and re-raised.
FsBegin ==
    /\ pc = "FS_BEGIN"
    /\ \/ LET order == StreamOrder(DOMAIN docs) IN
             /\ fs' = [stream |-> order, i |-> 1, deleted |-> 0, failed |-> 0,
                       caller |-> IF delete_type = "3" THEN "main"
                                  ELSE "delete_auth_users"]
             /\ calls' = Append(calls, Call("stream", order, "ok"))
             /\ pc' = "FS_LOOP"
       \/ /\ calls' = Append(calls, Call("stream", <<>>, "UNAVAILABLE"))
          /\ pc' = "CRASHED"
          /\ UNCHANGED fs
    /\ UNCHANGED << file, action, last_batch, platformVars, rounds, migrateVars, console, log,
                    delete_type, confirm, au >>

\* Faulty variant of AfterDocAttempt: the first failed deletion ends the loop.
AfterDocAttempt_StopOnFailure(f, ok) ==
    IF ok THEN [f EXCEPT !.i = @ + 1, !.deleted = @ + 1]
    ELSE [f EXCEPT !.i = Len(f.stream) + 1, !.failed = @ + 1]

\* The position of the document loop after one delete attempt (lines 136-143):
\* success and failure both move on to the next streamed document.
AfterDocAttempt(f, ok) ==
    IF ok THEN [f EXCEPT !.i = @ + 1, !.deleted = @ + 1]
    ELSE [f EXCEPT !.i = @ + 1, !.failed = @ + 1]

\* for doc in docs: doc.reference.delete(), lines 136-143.
FsDelete ==
    /\ pc = "FS_LOOP"
    /\ fs.i <= Len(fs.stream)
    /\ LET id == fs.stream[fs.i]
       IN \/ /\ docs' = RemoveDocument(docs, id)
             /\ calls' = Append(calls, Call("delete_document", id, "ok"))
             /\ fs' = AfterDocAttempt(fs, TRUE)
          \/ /\ calls' = Append(calls, Call("delete_document", id, "UNAVAILABLE"))
             /\ fs' = AfterDocAttempt(fs, FALSE)
             /\ UNCHANGED docs
    /\ UNCHANGED << file, action, last_batch, identities, pc, rounds, migrateVars, console, log,
                    delete_type, confirm, au >>

\* Faulty variant of Printed: delete-both prints the store pair and the identity pair.
Printed_BothPairs(dt, store_pair, auth_pair) ==
    IF dt = "3" THEN << <<"Deleted from Firestore", store_pair[1], store_pair[2]>> >>
    ELSE IF dt = "1"
    THEN << <<"Deleted from Firestore", store_pair[1], store_pair[2]>>,
            <<"Deleted from Auth", auth_pair[1], auth_pair[2]>> >>
    ELSE << <<"Deleted from Auth", auth_pair[1], auth_pair[2]>> >>

\* What main() prints once a deleter has returned (lines 243, 246, 249).
Printed(dt, store_pair, auth_pair) ==
    IF dt = "3" THEN << <<"Deleted from Firestore", store_pair[1], store_pair[2]>> >>
    ELSE << <<"Deleted from Auth", auth_pair[1], auth_pair[2]>> >>

\* return deleted_count, failed_count (lines 145-146), then line 165 in
\* delete_auth_users or line 249 in main().
FsReturn ==
    /\ pc = "FS_LOOP"
    /\ fs.i > Len(fs.stream)
    /\ IF fs.caller = "delete_auth_users"
       THEN /\ log' = log \o << <<"Firestore deletion completed", fs.deleted, fs.failed>>,
                               <<"Firestore deletion", fs.deleted, fs.failed>> >>
            /\ pc' = "AUTH_LIST"
            /\ UNCHANGED console
       ELSE /\ log' = Append(log, <<"Firestore deletion completed", fs.deleted, fs.failed>>)
            /\ console' = console
                            \o Printed(delete_type, <<fs.deleted, fs.failed>>, <<0, 0>>)
            /\ pc' = "MENU"
    /\ UNCHANGED << file, action, last_batch, platformVars, rounds, migrateVars, calls, deleteVars >>

\* page = auth.list_users(), lines 167-172.
AuthList ==
    /\ pc = "AUTH_LIST"
    /\ \/ \E listing \in Orders(identities), size \in 1..MaxPage :
             /\ au' = [pages |-> Pages(listing, size), p |-> 1, i |-> 1,
                       deleted |-> 0, failed |-> 0]
             /\ calls' = Append(calls, Call("list_users", listing, "ok"))
             /\ pc' = "AUTH_LOOP"
       \/ /\ calls' = Append(calls, Call("list_users", <<>>, "UNAVAILABLE"))
          /\ pc' = "CRASHED"
          /\ UNCHANGED au
    /\ UNCHANGED << file, action, last_batch, platformVars, rounds, migrateVars, console, log,
                    delete_type, confirm, fs >>

\* Faulty variant of AfterDeleteAttempt: a failed deletion leaves the page.
AfterDeleteAttempt_AbortPage(a, ok) ==
    IF ok THEN [a EXCEPT !.i = @ + 1, !.deleted = @ + 1]
    ELSE [a EXCEPT !.i = Len(a.pages[a.p]) + 1, !.failed = @ + 1]

\* The position of the page loop after one delete attempt (lines 174-182):
\* success and failure both move on to the next user of the page.
AfterDeleteAttempt(a, ok) ==
    IF ok THEN [a EXCEPT !.i = @ + 1, !.deleted = @ + 1]
    ELSE [a EXCEPT !.i = @ + 1, !.failed = @ + 1]

\* for user in page.users: auth.delete_user(user.uid), lines 174-182.
AuthDelete ==
    /\ pc = "AUTH_LOOP"
    /\ au.i <= Len(au.pages[au.p])
    /\ LET user == au.pages[au.p][au.i]
       IN \/ /\ identities' = identities \ {user}
             /\ calls' = Append(calls, Call("delete_user", user.uid, "ok"))
             /\ au' = AfterDeleteAttempt(au, TRUE)
          \/ /\ calls' = Append(calls, Call("delete_user", user.uid, "UNAVAILABLE"))
             /\ au' = AfterDeleteAttempt(au, FALSE)
             /\ UNCHANGED identities
    /\ UNCHANGED << file, action, last_batch, docs, pc, rounds, migrateVars, console, log, delete_type,
                    confirm, fs >>

\* page = page.get_next_page() (line 185); when it is None the loop ends,
\* lines 187-188, and main() prints the pair (lines 243, 246).
AuthNextPage ==
    /\ pc = "AUTH_LOOP"
    /\ au.i > Len(au.pages[au.p])
    /\ \/ /\ au.p < Len(au.pages)
          /\ au' = [au EXCEPT !.p = @ + 1, !.i = 1]
          /\ calls' = Append(calls, Call("get_next_page", au.p, "ok"))
          /\ UNCHANGED << pc, log, console >>
       \/ /\ au.p = Len(au.pages)
          /\ calls' = Append(calls, Call("get_next_page", au.p, "none"))
          /\ log' = Append(log, <<"Auth deletion completed", au.deleted, au.failed>>)
          /\ console' = console
                          \o Printed(delete_type, <<fs.deleted, fs.failed>>,
                                     <<au.deleted, au.failed>>)
          /\ pc' = "MENU"
          /\ UNCHANGED au
       \/ /\ au.p < Len(au.pages)
          /\ calls' = Append(calls, Call("get_next_page", au.p, "UNAVAILABLE"))
          /\ pc' = "CRASHED"
          /\ UNCHANGED << au, log, console >>
    /\ UNCHANGED << file, action, last_batch, platformVars, rounds, migrateVars, delete_type, confirm, fs >>

\* main(), action == "3" (lines 255-257) and any other token (lines 259-260).
MenuExit ==
    /\ pc = "MENU"
    /\ rounds < MaxRounds
    /\ \E token \in Actions : Dispatch(token) = "exit" /\ action' = token
    /\ rounds' = rounds + 1
    /\ calls' = <<>>
    /\ log' = <<>>
    /\ console' = << <<"Exiting...">> >>
    /\ pc' = "EXIT"
    /\ ResetMigrate
    /\ ResetDelete
    /\ last_batch' = NoBatch
    /\ UNCHANGED << file, platformVars >>

MenuInvalid ==
    /\ pc = "MENU"
    /\ rounds < MaxRounds
    /\ \E token \in Actions : Dispatch(token) = "invalid" /\ action' = token
    /\ console' = << <<"Invalid option. Please choose 1, 2, or 3">> >>
    /\ rounds' = rounds + 1
    /\ calls' = <<>>
    /\ log' = <<>>
    /\ ResetMigrate
    /\ ResetDelete
    /\ last_batch' = NoBatch
    /\ UNCHANGED << file, platformVars, pc >>

Next ==
    \/ MenuMigrate
    \/ MigrateUserBegin
    \/ Lookup
    \/ CreateUser
    \/ CreateUserRetry
    \/ ResetLink
    \/ SetDoc
    \/ Tally
    \/ Summary
    \/ MenuDelete
    \/ FsBegin
    \/ FsDelete
    \/ FsReturn
    \/ AuthList
    \/ AuthDelete
    \/ AuthNextPage
    \/ MenuExit
    \/ MenuInvalid

Spec == Init /\ [][Next]_vars

\* The steps of a running command: everything but reading a token at the
\* MENU prompt.
CommandStep ==
    \/ MigrateUserBegin
    \/ Lookup
    \/ CreateUser
    \/ CreateUserRetry
    \/ ResetLink
    \/ SetDoc
    \/ Tally
    \/ Summary
    \/ FsBegin
    \/ FsDelete
    \/ FsReturn
    \/ AuthList
    \/ AuthDelete
    \/ AuthNextPage

\* main() is one sequential thread: once a command has been read its next
\* statement runs, and every external call returns or raises.  Only the
\* operator at the blocking input() of line 198 may wait for ever.
FairSpec == Spec /\ WF_vars(CommandStep)

\* ------------------------------------------------------------ properties
\* The driver is inside migrate_user for the record file[idx].
InMigrate == pc \in {"LOOKUP", "CREATE", "CREATE_RETRY", "RESET_LINK", "SET", "TALLY"}

\* The email attribute of the record migrate_user is working on.
CurrentEmail == get_attribute_value(file[idx].Attributes, "email")

\* The calls of one kind among calls.
CallsOf(op) == SelectSeq(calls, LAMBDA c : c.op = op)

IdentityOps ==
    {"get_user_by_email", "create_user", "generate_password_reset_link", "delete_user",
     "list_users", "get_next_page"}
StoreOps == {"set", "stream", "delete_document"}

\* C1: a record whose email attribute is absent or empty makes migrate_user
\* return None with no call to the identity platform or the document store:
\* such a record is never at a calling step, and it reaches the tally with an
\* empty call list and the result None.
C1_NoEmailNoCalls ==
    (InMigrate /\ (CurrentEmail = None \/ CurrentEmail = <<>>))
        => (pc = "TALLY" /\ result = NoUser /\ calls = <<>>)

\* An empty (not absent) email has been skipped with no call made.
C1_Witness ==
    /\ pc = "TALLY"
    /\ CurrentEmail = <<>>
    /\ calls = <<>>
    /\ result = NoUser

\* C2: once get_user_by_email has found the identity, migrate_user issues no
\* create_user and no generate_password_reset_link call, and it returns only
\* after exactly one set call, made with merge=True on the document whose id
\* is the uid of the identity that owns the email.
C2_FoundReusesIdentity ==
    (InMigrate /\ calls # <<>> /\ calls[1].out = "found")
        => /\ CallsOf("create_user") = <<>>
           /\ CallsOf("generate_password_reset_link") = <<>>
           /\ pc \in {"SET", "TALLY"}
           /\ pc = "TALLY"
                => /\ Len(calls) = 2
                   /\ calls[2].op = "set"
                   /\ calls[2].arg.merge = TRUE
                   /\ \E i \in identities :
                         i.email = calls[1].arg /\ i.uid = calls[2].arg.id

\* The identity found has another uid than the record's Username and the
\* document has been written under that uid.
C2_Witness ==
    /\ pc = "TALLY"
    /\ Len(calls) = 2
    /\ calls[1].out = "found"
    /\ calls[2].out = "ok"
    /\ calls[2].arg.id # file[idx].Username
    /\ result # NoUser

\* C3: after get_user_by_email reported not-found, migrate_user makes one
\* create_user call; if that call fails with INVALID_PHONE_NUMBER or
\* PHONE_NUMBER_EXISTS it makes a second one, whose request is the first
\* request without phone_number; it never makes a third, and when it returns
\* the count is exactly one (no phone failure) or exactly two (phone failure).
C3_CreateCalls ==
    LET creates == CallsOf("create_user") IN
    InMigrate
        => /\ Len(creates) <= 2
           /\ creates # <<>> => calls[1].out = "not_found"
           /\ Len(creates) = 2
                => /\ IsPhoneError(creates[1].out)
                   /\ "phone_number" \in DOMAIN creates[1].arg
                   /\ "phone_number" \notin DOMAIN creates[2].arg
                   /\ \A k \in DOMAIN creates[2].arg : creates[2].arg[k] = creates[1].arg[k]
                   /\ DOMAIN creates[2].arg = DOMAIN creates[1].arg \ {"phone_number"}
           /\ (pc = "TALLY" /\ calls # <<>> /\ calls[1].out = "not_found")
                => /\ Len(creates) >= 1
                   /\ IsPhoneError(creates[1].out) <=> Len(creates) = 2

\* A phone failure followed by a successful create without the phone.
C3_Witness ==
    LET creates == CallsOf("create_user") IN
    /\ pc = "TALLY"
    /\ Len(creates) = 2
    /\ creates[1].out = "PHONE_NUMBER_EXISTS"
    /\ creates[2].out = "ok"
    /\ result # NoUser

\* The MIGRATE batch has logged its summary and the driver is back in MENU.
SummaryLogged == pc = "MENU" /\ log # <<>> /\ log[Len(log)][1] = "summary"

\* The outcomes with which an external call fails.
Failed(out) == out \notin {"ok", "found", "not_found", "none"}

\* C4: in a MIGRATE batch a failing identity-platform or document-store call
\* makes migrate_user return None and never ends the run (the run ends only
\* before the first record or inside a deleter); the records are handed to
\* migrate_user once each, in file order, whatever happened to the earlier
\* ones, and the summary is logged after all of them.
C4_FailuresStayInRecord ==
    /\ pc = "CRASHED" => (calls = <<>> \/ calls[Len(calls)].op \notin
                              {"get_user_by_email", "create_user",
                               "generate_password_reset_link", "set"})
    /\ (pc = "CRASHED" /\ calls = <<>>) => processed = <<>>
    /\ (pc = "TALLY" /\ calls # <<>> /\ Failed(calls[Len(calls)].out)) => result = NoUser
    /\ \A j \in DOMAIN processed : processed[j].i = j
    /\ (pc \in {"LOOP"} \cup {"LOOKUP", "CREATE", "CREATE_RETRY", "RESET_LINK", "SET", "TALLY"})
          => Len(processed) = idx - 1
    /\ InMigrate => idx <= Len(file)
    /\ SummaryLogged => Len(processed) = Len(file)

\* A batch of two records ran to its summary although a call failed while the
\* first record was processed; the second record was migrated.
C4_Witness ==
    /\ SummaryLogged
    /\ Len(file) = 2
    /\ Truthy(get_attribute_value(file[1].Attributes, "email"))
    /\ processed[1].result = NoUser
    /\ processed[2].result # NoUser

\* C5: every set call of migrate_user is made on the document whose id is the
\* uid of an identity the platform holds, and that identity was obtained
\* earlier in the same migrate_user, by a successful get_user_by_email or a
\* successful create_user; before the write user_record is such an identity.
C5_DocumentHasIdentity ==
    /\ pc = "SET" => user_record \in identities
    /\ InMigrate =>
         \A k \in DOMAIN calls :
            calls[k].op = "set" =>
               /\ \E i \in identities : i.uid = calls[k].arg.id
               /\ \E j \in 1..(k - 1) :
                     \/ /\ calls[j].op = "get_user_by_email"
                        /\ calls[j].out = "found"
                        /\ \E i \in identities :
                              i.email = calls[j].arg /\ i.uid = calls[k].arg.id
                     \/ /\ calls[j].op = "create_user"
                        /\ calls[j].out = "ok"
                        /\ calls[j].arg.uid = calls[k].arg.id

\* A document has been written for an identity created by this migrate_user.
C5_Witness ==
    /\ pc = "TALLY"
    /\ Len(calls) = 4
    /\ calls[2].op = "create_user"
    /\ calls[2].out = "ok"
    /\ calls[4].op = "set"
    /\ calls[4].out = "ok"
    /\ calls[4].arg.id \in DOMAIN docs

\* The records of the batch for which migrate_user returned None.
AbsentResults == {j \in DOMAIN processed : processed[j].result = NoUser}

RECURSIVE Flatten(_)
Flatten(pages) == IF pages = <<>> THEN <<>> ELSE Head(pages) \o Flatten(Tail(pages))

\* delete_auth_users has listed the identities / has returned to main().
AuthListed == CallsOf("list_users") # <<>> /\ CallsOf("list_users")[1].out = "ok"
AuthReturned == pc = "MENU" /\ AuthListed

\* C7: for every page size and number of pages, the delete_user calls of
\* delete_auth_users are the listed identities in listing order, one call
\* each, whatever the outcome of the earlier calls; the loop position is the
\* number of attempts made; the function returns only on the report that no
\* page follows, after an attempt on every listed identity, and the pair it
\* returns counts the successes and the failures, so the two add up to the
\* number of identities listed.
C7_EveryIdentityOnce ==
    LET dels == CallsOf("delete_user")
        listing == CallsOf("list_users")[1].arg
        before == Len(Flatten(SubSeq(au.pages, 1, au.p - 1)))
    IN ((pc = "AUTH_LOOP" \/ AuthReturned) /\ AuthListed)
         => /\ Flatten(au.pages) = listing
            /\ \A a, b \in DOMAIN listing : listing[a] = listing[b] => a = b
            /\ Len(dels) = before + au.i - 1
            /\ Len(dels) <= Len(listing)
            /\ \A k \in DOMAIN dels : dels[k].arg = listing[k].uid
            /\ au.deleted = Len(SelectSeq(dels, LAMBDA c : c.out = "ok"))
            /\ au.failed = Len(SelectSeq(dels, LAMBDA c : Failed(c.out)))
            /\ AuthReturned
                 => /\ calls[Len(calls)].op = "get_next_page"
                    /\ calls[Len(calls)].out = "none"
                    /\ au.p = Len(au.pages)
                    /\ Len(dels) = Len(listing)
                    /\ au.deleted + au.failed = Len(listing)
                    /\ log[Len(log)] = <<"Auth deletion completed", au.deleted, au.failed>>

\* Three identities listed in two pages: the first deletion failed, the
\* second succeeded, and the identity of the second page was attempted too.
C7_Witness ==
    LET dels == CallsOf("delete_user") IN
    /\ AuthReturned
    /\ Len(au.pages) = 2
    /\ Len(dels) = 3
    /\ Failed(dels[1].out)
    /\ dels[2].out = "ok"
    /\ au.deleted + au.failed = 3

\* "yes" in every mix of upper and lower case.
YesAnyCase == {<<a, b, c>> : a \in {"y", "Y"}, b \in {"e", "E"}, c \in {"s", "S"}}

DeletionOps == {"stream", "delete_document", "list_users", "delete_user", "get_next_page"}

\* The current command is DELETE and the answer was not "yes".
Declined == delete_type # "none" /\ confirm \notin YesAnyCase

\* C8: a deletion call is made only under an answer equal to "yes" ignoring
\* case; with any other answer, whatever the scope, the DELETE action makes no
\* stream, delete_document, list_users or delete_user call, prints
\* "Deletion cancelled" and leaves the driver in MENU.
C8_OnlyYesDeletes ==
    /\ (\E k \in DOMAIN calls : calls[k].op \in DeletionOps) => confirm \in YesAnyCase
    /\ Declined
         => /\ pc = "MENU"
            /\ calls = <<>>
            /\ console = << <<"Deletion cancelled">> >>
            /\ fs = FsIdle
            /\ au = AuIdle

\* C8, frame: the step that reads an answer other than "yes" leaves the
\* identities and the documents as they were.
C8_DeclinedChangesNothing ==
    [][Declined' /\ rounds' = rounds + 1 => identities' = identities /\ docs' = docs]_vars

\* C8: both parts.
C8_CancelHasNoEffect == []C8_OnlyYesDeletes /\ C8_DeclinedChangesNothing

\* Delete-both was answered "yes " (trailing blank) while identities and
\* documents exist: the action was cancelled.
C8_Witness ==
    /\ pc = "MENU"
    /\ delete_type = "1"
    /\ confirm = <<"y", "e", "s", " ">>
    /\ console = << <<"Deletion cancelled">> >>
    /\ identities # {}
    /\ DOMAIN docs # {}

\* Delete-both, confirmed, has returned to MENU.
DeleteBothDone == pc = "MENU" /\ delete_type = "1" /\ confirm \in YesAnyCase

\* The count pairs on the console.
ConsolePairs == SelectSeq(console, LAMBDA line : Len(line) = 3)

\* C9 as stated: after delete-both confirmed with "yes" both deleters have run
\* and the console shows two count pairs, the store's and the identities'.
C9_TwoPairsPrinted ==
    DeleteBothDone
        => /\ CallsOf("stream") # <<>>
           /\ CallsOf("list_users") # <<>>
           /\ Len(ConsolePairs) = 2
           /\ \E k \in DOMAIN console :
                 console[k] = <<"Deleted from Firestore", fs.deleted, fs.failed>>
           /\ \E k \in DOMAIN console :
                 console[k] = <<"Deleted from Auth", au.deleted, au.failed>>

\* C9 amended: after delete-both confirmed with "yes" has returned, both
\* deleters have run (the store deleter to its end, then the identity
\* deleter) and the console shows one count pair, the identity platform's;
\* the store's pair is written to the log only.
C9_OnePairPrinted ==
    DeleteBothDone
        => /\ CallsOf("stream") # <<>>
           /\ CallsOf("stream")[1].out = "ok"
           /\ Len(CallsOf("delete_document")) = Len(CallsOf("stream")[1].arg)
           /\ AuthListed
           /\ console = << <<"Deleted from Auth", au.deleted, au.failed>> >>
           /\ \E k \in DOMAIN log : log[k] = <<"Firestore deletion", fs.deleted, fs.failed>>
           /\ \A k \in DOMAIN console : console[k][1] # "Deleted from Firestore"

\* Delete-both removed a document and an identity and printed one line.
C9_Witness ==
    /\ DeleteBothDone
    /\ confirm = <<"y", "e", "s">>
    /\ fs.deleted >= 1
    /\ au.deleted >= 1
    /\ Len(console) = 1

\* C10: the email_verified flag of every create_user request is true exactly
\* when the record's email_verified attribute is the string "true", which is
\* the value the Document Mapper writes for the same record.
C10_FlagIsExactlyTrue ==
    InMigrate
        => \A k \in DOMAIN calls :
              calls[k].op = "create_user"
                 => /\ calls[k].arg.email_verified
                         = (get_attribute_value(file[idx].Attributes, "email_verified")
                               = <<"t", "r", "u", "e">>)
                    /\ calls[k].arg.email_verified
                         = create_firestore_user_data(file[idx], [uid |-> calls[k].arg.uid])
                              .Attributes.email_verified

\* The first attribute called name in attributes has the value v.
AttributeIs(attributes, name, v) ==
    \E j \in DOMAIN attributes :
       /\ attributes[j].Name = name
       /\ attributes[j].Value = v
       /\ \A i \in 1..(j - 1) : attributes[i].Name # name

\* C11: in every document migrate_user hands to set, Attributes.email_verified
\* and Attributes.phone_number_verified are booleans, each true only when the
\* record's attribute is the exact string "true" and false when it is absent
\* or any other value; the document is the one the mapper gives for the
\* record and the uid alone, and a successful set stores these flags.
C11_ExactTrueOnly ==
    InMigrate
        => \A k \in DOMAIN calls :
              calls[k].op = "set"
                 => LET d == calls[k].arg.data
                        attributes == file[idx].Attributes
                    IN /\ d.Attributes.email_verified
                            = AttributeIs(attributes, "email_verified",
                                          <<"t", "r", "u", "e">>)
                       /\ d.Attributes.phone_number_verified
                            = AttributeIs(attributes, "phone_number_verified",
                                          <<"t", "r", "u", "e">>)
                       /\ d = create_firestore_user_data(file[idx],
                                                         [uid |-> calls[k].arg.id])
                       /\ (calls[k].out = "ok" /\ pc = "TALLY")
                             => docs[calls[k].arg.id].Attributes = d.Attributes

\* A record with email_verified "1" and phone_number_verified "TRUE" has been
\* written with both flags false, after a record with both attributes "true"
\* was written with both flags true.
C11_Witness ==
    /\ pc = "TALLY"
    /\ file[idx] = RecBadPhone
    /\ calls # <<>>
    /\ calls[Len(calls)].op = "set"
    /\ calls[Len(calls)].out = "ok"
    /\ ~docs["u5"].Attributes.email_verified
    /\ ~docs["u5"].Attributes.phone_number_verified
    /\ "u1" \in DOMAIN docs
    /\ docs["u1"].Attributes.email_verified
    /\ docs["u1"].Attributes.phone_number_verified

InvalidLine == <<"Invalid option. Please choose 1, 2, or 3">>
InCommand == pc \notin {"MENU", "EXIT", "CRASHED"}

\* What holds in every state of the driver: EXIT is entered by the token 3
\* alone, a token other than 1, 2, 3 leaves the driver at MENU with the
\* invalid-option line and no call, and a running command is the one chosen.
DriverStates ==
    /\ pc = "EXIT" <=> action = "3"
    /\ action \notin {"none", "1", "2", "3"}
          => (pc = "MENU" /\ console = <<InvalidLine>> /\ calls = <<>>)
    /\ (InMigrate \/ pc = "LOOP") => action = "1"
    /\ pc \in {"FS_BEGIN", "FS_LOOP", "AUTH_LIST", "AUTH_LOOP"} => action = "2"

\* What holds of every step of the driver.
DriverSteps ==
    /\ pc \notin {"EXIT", "CRASHED"}
    /\ pc = "MENU"
          => /\ action' \in Actions
             /\ action' \notin {"1", "2", "3"}
                   => (pc' = "MENU" /\ UNCHANGED platformVars /\ calls' = <<>>)
             /\ action' = "3" => (pc' = "EXIT" /\ UNCHANGED platformVars)
             /\ (action' = "2" /\ (~Confirmed(confirm') \/ delete_type' \notin {"1", "2", "3"}))
                   => (pc' = "MENU" /\ UNCHANGED platformVars /\ calls' = <<>>)
    /\ pc # "MENU" => (pc' # "EXIT" /\ action' = action)

\* C12: from MENU a token other than 1, 2, 3 reports an invalid option, makes
\* no call and stays in MENU; the token 3 ends the loop and nothing runs after
\* EXIT; a MIGRATE batch or a DELETE action, once started, comes back to MENU
\* unless a fatal error ends the run, and a cancelled or invalid-scope DELETE
\* is back at MENU at once; so a 3 typed at any later prompt reaches EXIT.
C12_DriverStateMachine ==
    /\ []DriverStates
    /\ [][DriverSteps]_vars
    /\ InCommand ~> (pc \in {"MENU", "CRASHED"})

\* An invalid token was read at the second prompt, after a batch that wrote a
\* document had come back to MENU.
C12_Witness ==
    /\ pc = "MENU"
    /\ action = ""
    /\ rounds = 2
    /\ console = <<InvalidLine>>
    /\ "u1" \in DOMAIN docs

\* A confirmed deletion with an Auth scope: delete_auth_users has been called.
InDeleteAuthUsers == action = "2" /\ Confirmed(confirm) /\ delete_type \in {"1", "2"}

AuthDeleterOps == {"list_users", "delete_user", "get_next_page"}

\* C13: in delete_auth_users with the cascade flag set, the stream call and
\* one delete call for every streamed document come before the first
\* list_users or delete_user call, and no store call comes after; with the
\* flag not set there is no document-store call at all; in both cases the
\* pair handed back to main() counts the delete_user outcomes only.
C13_CascadeBeforeIdentities ==
    InDeleteAuthUsers
        => /\ delete_type = "2" => \A k \in DOMAIN calls : calls[k].op \notin StoreOps
           /\ delete_type = "1"
                => /\ \A k \in DOMAIN calls :
                         calls[k].op \in AuthDeleterOps
                            => /\ calls[1].op = "stream"
                               /\ calls[1].out = "ok"
                               /\ k > 1 + Len(calls[1].arg)
                               /\ \A j \in DOMAIN calls[1].arg :
                                     /\ calls[1 + j].op = "delete_document"
                                     /\ calls[1 + j].arg = calls[1].arg[j]
                   /\ \A k \in DOMAIN calls :
                         calls[k].op \in StoreOps => k <= 1 + Len(calls[1].arg)
           /\ pc = "MENU"
                => LET deletes == CallsOf("delete_user")
                       ok == Len(SelectSeq(deletes, LAMBDA c : c.out = "ok"))
                   IN /\ console = << <<"Deleted from Auth", ok, Len(deletes) - ok>> >>
                      /\ log[Len(log)] = <<"Auth deletion completed", ok, Len(deletes) - ok>>

\* The cascade ran to its end with a failed document deletion, then an
\* identity was deleted, and the pair printed is the identities' alone.
C13_Witness ==
    /\ pc = "MENU"
    /\ InDeleteAuthUsers
    /\ delete_type = "1"
    /\ fs.failed >= 1
    /\ au.deleted >= 1
    /\ console = << <<"Deleted from Auth", au.deleted, au.failed>> >>
    /\ <<fs.deleted, fs.failed>> # <<au.deleted, au.failed>>

\* migrate_user has succeeded for rec and nothing has changed since: an
\* identity owns the record's email and its document holds every field the
\* mapper gives for the record and that identity.
AlreadyMigrated(rec) ==
    \E i \in identities :
       /\ i.email = get_attribute_value(rec.Attributes, "email")
       /\ i.uid \in DOMAIN docs
       /\ LET d == create_firestore_user_data(rec, i)
          IN \A k \in DOMAIN d : k \in DOMAIN docs[i.uid] /\ docs[i.uid][k] = d[k]

\* A batch has handed every record to migrate_user.
BatchOver == pc = "LOOP" /\ idx > Len(file)

\* The command before the running batch was a batch over the same file in
\* which no migration failed.
SecondBatch == (InMigrate \/ pc = "LOOP") /\ last_batch # NoBatch /\ last_batch.clean

\* Steps of migrate_user on a record that is already migrated: the lookup
\* leads to the write, never to a creation, the identity handed on is the
\* owner of the email, and the write changes no identity and no document and
\* returns that identity.
RerunSteps ==
    (pc \in {"LOOKUP", "SET"} /\ AlreadyMigrated(file[idx]))
        => /\ UNCHANGED platformVars
           /\ pc' \in {"SET", "TALLY"}
           /\ pc' = "SET" => (user_record' \in identities
                                /\ user_record'.email = CurrentEmail)
           /\ (pc' = "TALLY" /\ calls'[Len(calls')].out = "ok")
                 => (result' = user_record /\ result' \in identities
                       /\ result'.email = CurrentEmail)
           /\ pc = "LOOKUP"
                 => \A k \in DOMAIN calls' :
                       calls'[k].op \notin {"create_user", "generate_password_reset_link"}

\* C14: migrate_user run on an already migrated record returns the identity
\* that owns the email, makes no create_user and no reset-link call and
\* leaves identities and documents as they were (the merge write stores what
\* is stored already); a batch run straight after a batch with no failure
\* creates nothing, and when it has no failure either it ends with the
\* identities and documents the first batch ended with.
C14_RerunChangesNothing ==
    /\ [][RerunSteps]_vars
    /\ [](SecondBatch
            => /\ identities = last_batch.identities
               /\ CallsOf("create_user") = <<>>
               /\ CallsOf("generate_password_reset_link") = <<>>)
    /\ []((SecondBatch /\ BatchOver /\ BatchClean)
            => (identities = last_batch.identities /\ docs = last_batch.docs))

\* The second batch over a two-record file has ended with no failure, it has
\* written documents again, one of them over a stored field the mapper does
\* not write, and the platforms are as the first batch left them.
C14_Witness ==
    /\ SecondBatch
    /\ BatchOver
    /\ BatchClean
    /\ Len(file) = 2
    /\ \A k \in DOMAIN processed : processed[k].result # NoUser
    /\ "x9" \in DOMAIN docs
    /\ "legacy" \in DOMAIN docs["x9"]
    /\ "Username" \in DOMAIN docs["x9"]
    /\ docs = last_batch.docs

\* delete_firestore_users has been called and has opened, or failed to open,
\* the stream.
InStoreDeleter ==
    /\ action = "2"
    /\ Confirmed(confirm)
    /\ delete_type \in {"1", "3"}
    /\ calls # <<>>

DocDeletes == CallsOf("delete_document")
StoreDeleterReturned == InStoreDeleter /\ pc \notin {"FS_BEGIN", "FS_LOOP", "CRASHED"}

\* C15: delete_firestore_users makes one delete call per streamed document,
\* in stream order, goes on after a failed one, and returns (deleted, failed)
\* whose sum is the number of documents streamed; a document is gone exactly
\* when its delete call succeeded; when opening the stream fails the error
\* ends the run with no delete call made.
C15_OneDeletePerDocument ==
    InStoreDeleter
        => /\ calls[1].op = "stream"
           /\ calls[1].out # "ok" => (pc = "CRASHED" /\ Len(calls) = 1)
           /\ calls[1].out = "ok"
                => LET stream == calls[1].arg
                       ok == SelectSeq(DocDeletes, LAMBDA c : c.out = "ok")
                   IN /\ Len(DocDeletes) <= Len(stream)
                      /\ \A j \in DOMAIN DocDeletes :
                            calls[1 + j] = DocDeletes[j] /\ DocDeletes[j].arg = stream[j]
                      /\ fs.deleted = Len(ok)
                      /\ fs.failed = Len(DocDeletes) - Len(ok)
                      /\ DOMAIN docs = {stream[j] : j \in DOMAIN stream}
                                          \ {ok[j].arg : j \in DOMAIN ok}
                      /\ StoreDeleterReturned
                            => /\ Len(DocDeletes) = Len(stream)
                               /\ fs.deleted + fs.failed = Len(stream)
                               /\ \E k \in DOMAIN log :
                                     log[k] = <<"Firestore deletion completed",
                                                fs.deleted, fs.failed>>
                               /\ delete_type = "3"
                                     => console = << <<"Deleted from Firestore",
                                                       fs.deleted, fs.failed>> >>

\* The deleter has returned (1, 1): the first delete failed, the second was
\* attempted all the same and succeeded.
C15_Witness ==
    /\ StoreDeleterReturned
    /\ delete_type = "3"
    /\ Len(calls) = 3
    /\ calls[2].out = "UNAVAILABLE"
    /\ calls[3].out = "ok"
    /\ fs.deleted = 1
    /\ fs.failed = 1

\* The display name the specification gives for a record: "given family"
\* when both names are present, the one present name alone when one is, and
\* no display name when neither is.
StatedDisplayName(given_name, family_name) ==
    IF Truthy(given_name) /\ Truthy(family_name)
    THEN given_name \o <<" ">> \o family_name
    ELSE IF Truthy(given_name) THEN given_name
    ELSE IF Truthy(family_name) THEN family_name
    ELSE None

\* C16 as stated: the first create_user request carries display_name exactly
\* when a name is present, its value is the present names joined by one space
\* (an absent name contributes no text), phone_number is in the request
\* exactly when the record has a non-empty phone_number, and no field of the
\* request has an absent value.
C16_DisplayNameOfPresentNames ==
    InMigrate
        => LET creates == CallsOf("create_user")
               attributes == file[idx].Attributes
               stated == StatedDisplayName(get_attribute_value(attributes, "given_name"),
                                           get_attribute_value(attributes, "family_name"))
           IN creates # <<>>
                 => LET request == creates[1].arg
                    IN /\ "display_name" \in DOMAIN request <=> stated # None
                       /\ "display_name" \in DOMAIN request
                             => request.display_name = stated
                       /\ "phone_number" \in DOMAIN request
                             <=> Truthy(get_attribute_value(attributes, "phone_number"))
                       /\ \A k \in DOMAIN request : request[k] # None

PhoneCodes == {"INVALID_PHONE_NUMBER", "PHONE_NUMBER_EXISTS"}

\* The creation of the identity has failed for good: the first create_user
\* call failed for a reason that is not a phone reason, or the retry failed.
CreationFailed ==
    LET creates == CallsOf("create_user") IN
    \/ Len(creates) = 1 /\ creates[1].out \notin PhoneCodes \cup {"ok"}
    \/ Len(creates) = 2 /\ creates[2].out # "ok"

\* The step on which create_user fails for good.
CreationFailsStep ==
    /\ pc \in {"CREATE", "CREATE_RETRY"}
    /\ calls' # calls
    /\ calls'[Len(calls')].out # "ok"
    /\ pc = "CREATE" => calls'[Len(calls')].out \notin PhoneCodes

\* C17: when create_user fails for a reason other than a phone reason, or
\* the retry without phone fails, the failed call is the last call of
\* migrate_user (no further create_user, no reset link, no set), the result
\* is None, no identity owns the record's email, and the failing step leaves
\* identities and documents as they were.
C17_CreationFailureEndsRecord ==
    /\ []((InMigrate /\ CreationFailed)
            => /\ pc = "TALLY"
               /\ result = NoUser
               /\ calls[Len(calls)].op = "create_user"
               /\ CallsOf("generate_password_reset_link") = <<>>
               /\ CallsOf("set") = <<>>
               /\ \A i \in identities : i.email # CurrentEmail)
    /\ [][CreationFailsStep
            => (pc' = "TALLY" /\ result' = NoUser /\ UNCHANGED platformVars)]_vars

\* The first creation failed on the invalid phone and the retry failed too.
C17_Witness ==
    /\ pc = "TALLY"
    /\ CreationFailed
    /\ Len(CallsOf("create_user")) = 2
    /\ CallsOf("create_user")[1].out = "INVALID_PHONE_NUMBER"
    /\ CallsOf("create_user")[2].out = "UNAVAILABLE"
    /\ result = NoUser

\* migrate_user has created the identity for a new email and written its
\* document.
CreatedAndWritten ==
    /\ pc = "TALLY"
    /\ calls # <<>>
    /\ calls[1].out = "not_found"
    /\ result # NoUser

\* C18: for a new email whose creation and write succeed, the identity has
\* the record's Username as uid, exactly one reset link is generated, right
\* after the successful create_user and right before the set, and the
\* document is stored under the Username with firebase_uid equal to that key;
\* a file of one such record is summarised as total=1, success=1, failed=0.
\* Every document migrate_user writes, and every stored document, is keyed by
\* its own firebase_uid.
C18_KeyedByUsername ==
    /\ CreatedAndWritten
          => LET n == Len(calls)
                 uid == file[idx].Username
             IN /\ result.uid = uid
                /\ result \in identities
                /\ result.email = CurrentEmail
                /\ Len(CallsOf("generate_password_reset_link")) = 1
                /\ n >= 4
                /\ calls[n - 2].op = "create_user" /\ calls[n - 2].out = "ok"
                /\ calls[n - 2].arg.uid = uid
                /\ calls[n - 1].op = "generate_password_reset_link"
                /\ calls[n - 1].arg = CurrentEmail
                /\ calls[n].op = "set" /\ calls[n].out = "ok"
                /\ calls[n].arg.id = uid
                /\ uid \in DOMAIN docs
                /\ docs[uid].firebase_uid = uid
                /\ docs[uid].Username = uid
    /\ (SummaryLogged /\ Len(file) = 1 /\ processed[1].result # NoUser)
          => stats = [total |-> 1, success |-> 1, failed |-> 0]
    /\ InMigrate
          => \A k \in DOMAIN calls :
                calls[k].op = "set" => calls[k].arg.data.firebase_uid = calls[k].arg.id
    /\ \A id \in DOMAIN docs : docs[id].firebase_uid = id

\* A file of one record with a new email has been migrated and summarised:
\* identity u1, one reset link, document u1, total=1, success=1, failed=0.
C18_Witness ==
    /\ SummaryLogged
    /\ file = <<RecFull>>
    /\ Len(calls) = 4
    /\ calls[3].op = "generate_password_reset_link"
    /\ calls[4].out = "ok"
    /\ \E i \in identities : i.uid = "u1"
    /\ "u1" \in DOMAIN docs
    /\ docs["u1"].firebase_uid = "u1"
    /\ stats = [total |-> 1, success |-> 1, failed |-> 0]

\* generate_password_reset_link has failed in the migrate_user call whose
\* calls are recorded.
ResetLinkFailed ==
    \E k \in DOMAIN calls :
       calls[k].op = "generate_password_reset_link" /\ calls[k].out # "ok"

\* C19: when generate_password_reset_link fails after a successful
\* create_user, it is the last call of migrate_user (no set call), the result
\* is None, the created identity stays on the platform, and the record is
\* tallied as failed; a migrate_user call that finds an identity by email,
\* such as a later one for that record, writes the document under the
\* identity's uid and generates no reset link.
C19_ResetLinkFailureLeavesIdentity ==
    /\ (InMigrate /\ ResetLinkFailed)
          => /\ pc = "TALLY"
             /\ result = NoUser
             /\ calls[Len(calls)].op = "generate_password_reset_link"
             /\ calls[Len(calls) - 1].op = "create_user"
             /\ calls[Len(calls) - 1].out = "ok"
             /\ CallsOf("set") = <<>>
             /\ \E i \in identities :
                   i.uid = file[idx].Username /\ i.email = CurrentEmail
    /\ (pc = "LOOP" /\ processed # <<>> /\ ResetLinkFailed)
          => /\ processed[Len(processed)].result = NoUser
             /\ stats.failed >= 1
             /\ stats.failed = Cardinality(AbsentResults)
    /\ (InMigrate /\ calls # <<>> /\ calls[1].out = "found")
          => /\ CallsOf("generate_password_reset_link") = <<>>
             /\ (pc = "TALLY" /\ calls[Len(calls)].out = "ok")
                   => /\ result \in identities
                      /\ result.email = CurrentEmail
                      /\ result.uid \in DOMAIN docs
                      /\ docs[result.uid].Username = file[idx].Username

\* The reset link failed for the only record of the file: identity u1
\* exists, no document does, and the record has been tallied as failed.
C19_Witness ==
    /\ pc = "LOOP"
    /\ file = <<RecFull>>
    /\ ResetLinkFailed
    /\ \E i \in identities : i.uid = "u1"
    /\ DOMAIN docs = {}
    /\ stats = [total |-> 1, success |-> 0, failed |-> 1]

\* The identity left without a document by an earlier batch has been found
\* by email in the next batch and its document written, with no reset link.
C19_OrphanRepaired ==
    /\ pc = "TALLY"
    /\ last_batch # NoBatch
    /\ Len(calls) = 2
    /\ calls[1].out = "found"
    /\ calls[2].out = "ok"
    /\ result.uid = file[idx].Username
    /\ result \in last_batch.identities
    /\ result.uid \notin DOMAIN last_batch.docs
    /\ result.uid \in DOMAIN docs

\* A batch is running over the loaded file, or has just been summarised.
InBatch == InMigrate \/ pc = "LOOP" \/ SummaryLogged

\* The records of this batch for which migrate_user returned an identity.
IdentityResults == {j \in DOMAIN processed : processed[j].result # NoUser}

\* C20: throughout a batch success + failed is the number of records handed
\* to migrate_user and tallied so far, and success is the number of them for
\* which migrate_user returned an identity; total is the number of records in
\* the file; at the summary every record has been tallied, so success +
\* failed = total, and these are the numbers logged.
C20_CountersAddUp ==
    InBatch
        => /\ stats.total = Len(file)
           /\ stats.success + stats.failed = Len(processed)
           /\ stats.success = Cardinality(IdentityResults)
           /\ Len(processed) = idx - 1
           /\ Len(processed) <= stats.total
           /\ SummaryLogged
                 => /\ stats.success + stats.failed = stats.total
                    /\ Len(processed) = Len(file)
                    /\ log[Len(log)] = <<"summary", stats>>

\* A two-record batch has been summarised with one success and one failure.
C20_Witness ==
    /\ SummaryLogged
    /\ Len(file) = 2
    /\ stats = [total |-> 2, success |-> 1, failed |-> 1]
    /\ Cardinality(IdentityResults) = 1

====
